---- MODULE Spec2Model ----
(***************************************************************************)
(* Model of the scanning engine of git-projects-core                       *)
(* (crates/git-projects-core/src/scanner.rs): DefaultScanner::scan,        *)
(* scan_root, is_inside_known_repo and analyze_repository, run over a      *)
(* small filesystem with regular repositories, submodules/worktrees, one   *)
(* symbolic link and one regular file.  A second part models the pure      *)
(* functions of git_analyzer.rs, parse_git_url and determine_config_scope, *)
(* on strings written as sequences of characters.                          *)
(*                                                                         *)
(* Paths are sequences of component names.  Option values are sequences:   *)
(* <<>> is None and <<x>> is Some(x).  The empty path <<>> stands for "no  *)
(* such file".                                                             *)
(***************************************************************************)
EXTENDS Integers, Sequences, FiniteSets, TLC

\* ---------------------------------------------------------------- bounds
\* longest list of root paths in a ScanConfig
MaxRoots == 2
\* largest value of ScanConfig::max_depth when it is Some(n)
MaxDepthOpt == 2

\* ------------------------------------------------------------ filesystem
\* The directory skeleton: r/p/m/n, r/q, the file r/q/f and the link r/p/l.
DirR == <<"r">>
DirP == <<"r", "p">>
DirM == <<"r", "p", "m">>
DirN == <<"r", "p", "m", "n">>
DirQ == <<"r", "q">>
FileF == <<"r", "q", "f">>
LinkL == <<"r", "p", "l">>

RealDirs == {DirR, DirP, DirM, DirN, DirQ}
Files == {FileF}
Names == {"r", "p", "m", "n", "q", "f", "l"}

\* what a directory holds as its .git entry: nothing, a directory, or a file
\* with a gitdir: redirect (submodule or linked worktree)
KindSets == [r : {"plain"}, p : {"plain", "repo", "sub"}, m : {"plain", "repo", "sub"},
             n : {"repo"}, q : {"repo", "sub"}]
KindOf(k, d) == IF d = DirR THEN k.r ELSE IF d = DirP THEN k.p ELSE IF d = DirM THEN k.m
                ELSE IF d = DirN THEN k.n ELSE k.q

\* the link r/p/l is absent (<<>>) or points at a repository, at a directory
\* above itself, or at a regular file
LinkTargets == {<<>>, DirQ, DirR, FileF}

\* the paths a caller may list as roots: the top directory and, inside it,
\* the link (no such file when the link is absent, no directory when it
\* points at the file, a root inside the repository r/p when r/p is one)
RootCandidates == {DirR, LinkL}

VARIABLES
    kind,               \* filesystem: the .git entry of every directory
    link,               \* filesystem: target of the link r/p/l, <<>> if absent
    root_paths,         \* ScanConfig::root_paths
    max_depth,          \* ScanConfig::max_depth, <<>> = None, <<n>> = Some(n)
    follow_symlinks,    \* ScanConfig::follow_symlinks
    include_submodules, \* ScanConfig::include_submodules
    pc,                 \* "scan": at the head of the loop over roots in scan;
                        \* "walk": inside the for loop of scan_root; "done"
    rootIdx,            \* index of the root the loop of scan is at
    all_projects,       \* scan: all_projects
    projects,           \* scan_root: projects
    visited_repos,      \* scan_root: visited_repos
    wstart,             \* walkdir: the root entry has not been yielded yet
    stack,              \* walkdir: the open directories, each with the
                        \* children not yet yielded
    classified,         \* history: [root, path] of every gix::discover call
    rootState,          \* history: state of each root of the list
    result,             \* what scan returned: "none" until it returns
    url,                \* git_analyzer: the remote URL handed to parse_git_url
    parsed,             \* git_analyzer: <<>> until parse_git_url returned,
                        \* then <<[service, account]>>
    scope1,             \* git_analyzer: scope of user.name, an Option
    scope2,             \* git_analyzer: scope of user.email, an Option
    scope,              \* git_analyzer: <<>> until determine_config_scope
                        \* returned, then <<its result>>
    git_repo,           \* the repository whose metadata is read: whether
                        \* gix::open succeeds, its remotes, its identity keys
    remotes_result,     \* <<>> until extract_remote_urls returned, then
                        \* <<[ok, value]>>
    config_result,      \* <<>> until extract_git_config returned, then
                        \* <<[ok, value]>>
    project             \* <<>> until analyze_repository returned, then
                        \* <<[remotes, config]>>

vars == <<kind, link, root_paths, max_depth, follow_symlinks, include_submodules,
          pc, rootIdx, all_projects, projects, visited_repos, wstart, stack,
          classified, rootState, result, url, parsed, scope1, scope2, scope,
          git_repo, remotes_result, config_result, project>>

fsVars == <<kind, link>>
cfgVars == <<root_paths, max_depth, follow_symlinks, include_submodules>>
metadataVars == <<git_repo, remotes_result, config_result, project>>
analyzerVars == <<url, parsed, scope1, scope2, scope, metadataVars>>

\* no URL is being parsed and no scopes are being combined
NoUrl == [form |-> "none", host |-> <<>>, account |-> <<>>, text |-> <<>>]
NoRepo == [opens |-> TRUE, rewrite |-> <<>>, remote_names |-> <<>>,
           user_name |-> {}, user_email |-> {}]

\* no repository's metadata is being read
MetadataIdle ==
    /\ git_repo = NoRepo
    /\ remotes_result = <<>>
    /\ config_result = <<>>
    /\ project = <<>>

AnalyzerIdle ==
    /\ url = NoUrl
    /\ parsed = <<>>
    /\ scope1 = <<>>
    /\ scope2 = <<>>
    /\ scope = <<>>
    /\ MetadataIdle

\* ---------------------------------------------------------- path helpers
Front(P) == SubSeq(P, 1, Len(P) - 1)
Last(P) == P[Len(P)]

\* Path::starts_with: component-wise prefix
StartsWith(P, Q) == Len(Q) <= Len(P) /\ SubSeq(P, 1, Len(Q)) = Q

StrictDescendant(P, Q) == P # Q /\ StartsWith(P, Q)

\* The file that the entry name of the directory par denotes, <<>> if none.
ResolveIn(par, name) ==
    IF par = <<>> \/ par \in Files THEN <<>>
    ELSE IF Append(par, name) = LinkL THEN link
    ELSE IF Append(par, name) \in RealDirs \cup Files THEN Append(par, name)
    ELSE <<>>

\* The file a path denotes after following links, <<>> if there is none.
\* (The parent is resolved once and bound as a value.)
RECURSIVE Resolve(_)
Resolve(P) ==
    IF Len(P) = 0 THEN <<>>
    ELSE IF Len(P) = 1 THEN (IF P = DirR THEN DirR ELSE <<>>)
    ELSE CHOOSE r \in {ResolveIn(par, Last(P)) : par \in {Resolve(Front(P))}} : TRUE

\* Path::exists and Path::is_dir (both follow links)
Exists(P) == Resolve(P) # <<>>
IsDir(P) == Resolve(P) \in RealDirs

\* DirEntry::path_is_symlink for an entry that was not followed
PathIsSymlink(P) ==
    /\ Len(P) >= 2
    /\ Resolve(Front(P)) \in RealDirs
    /\ Append(Resolve(Front(P)), Last(P)) = LinkL
    /\ link # <<>>

\* the names read_dir yields for a directory
Children(d) ==
    {n \in Names : \/ Append(d, n) \in RealDirs \cup Files
                   \/ (Append(d, n) = LinkL /\ link # <<>>)}

\* ------------------------------------------------------------------- gix
\* gix::discover: search upward from the path for a directory with a .git
\* entry.  <<>> = Err, otherwise <<repo>>, repo = its working tree and the
\* kind of its .git entry.
RECURSIVE DiscoverUpwards(_)
DiscoverUpwards(P) ==
    IF Len(P) = 0 THEN <<>>
    ELSE IF IsDir(P) /\ KindOf(kind, Resolve(P)) # "plain"
         THEN <<[work_dir |-> P, git |-> KindOf(kind, Resolve(P))]>>
         ELSE DiscoverUpwards(Front(P))

Discover(P) == IF IsDir(P) THEN DiscoverUpwards(P) ELSE <<>>

\* git_path.is_file(): the repository's .git is a file
GitPathIsFile(repo) == repo.git = "sub"

\* an is_root that takes the repository found from any path inside it
IsRoot_Always(repo, path) == TRUE

\* is_root of scan_root
IsRoot(repo, path) == repo.work_dir = path

\* should_include that takes every repository root
ShouldInclude_Always(is_submodule) == TRUE

\* should_include that takes regular repositories only
ShouldInclude_RegularOnly(is_submodule) == ~is_submodule

\* should_include of scan_root
ShouldInclude(is_submodule) == IF is_submodule THEN include_submodules ELSE TRUE

\* The directories at which extract_git_config returns Err (gix::open of
\* the working tree fails): a property of the filesystem; the model fixes
\* that the config of r/q cannot be read.
UnreadableConfigs == {DirQ}

\* extract_git_config(path).ok() of analyze_repository: None when the
\* config cannot be read, otherwise Some(GitConfig)
ConfigOk(path) ==
    IF Resolve(path) \in UnreadableConfigs THEN <<>> ELSE <<"GitConfig">>

\* analyze_repository that records the canonical (link-free) path
AnalyzeRepository_Canonical(repo) ==
    [path |-> Resolve(repo.work_dir),
     name |-> Last(repo.work_dir),
     is_submodule |-> GitPathIsFile(repo),
     config |-> ConfigOk(repo.work_dir)]

\* analyze_repository: the Project of a repository (it has no failing path)
AnalyzeRepository(repo) ==
    [path |-> repo.work_dir,
     name |-> Last(repo.work_dir),
     is_submodule |-> GitPathIsFile(repo),
     config |-> ConfigOk(repo.work_dir)]

\* is_inside_known_repo that finds no path inside a known repository
IsInsideKnownRepo_Never(path, known_repos) == FALSE

\* is_inside_known_repo that looks at the parent directory only
IsInsideKnownRepo_ParentOnly(path, known_repos) ==
    \E repo_path \in known_repos : path # repo_path /\ Front(path) = repo_path

\* is_inside_known_repo
IsInsideKnownRepo(path, known_repos) ==
    \E repo_path \in known_repos : path # repo_path /\ StartsWith(path, repo_path)

\* --------------------------------------------------------------- walkdir
Root == root_paths[rootIdx]

\* max_depth taken as the number of levels below the first one
DepthAllowed_OffByOne(d) == max_depth = <<>> \/ d <= max_depth[1] + 1

\* max_depth admits entries at depth d
DepthAllowed(d) == max_depth = <<>> \/ d <= max_depth[1]

\* The order in which read_dir lists names.  It is a property of the
\* filesystem, not of the scan, and no step of scan_root compares siblings:
\* the model fixes one order.
ReadDirOrder == <<"q", "p", "l", "m", "n", "f", "r">>

\* the first of the names in read_dir order
FirstName(todo) ==
    ReadDirOrder[CHOOSE i \in 1..Len(ReadDirOrder) :
        /\ ReadDirOrder[i] \in todo
        /\ \A j \in 1..(i - 1) : ReadDirOrder[j] \notin todo]

\* the entry the iterator yields next, if any
Entries ==
    IF wstart THEN {[path |-> Root, depth |-> 0]}
    ELSE IF stack = <<>> THEN {}
    ELSE {[path |-> Append(stack[Len(stack)].path, FirstName(stack[Len(stack)].todo)),
           depth |-> Len(stack)]}

\* following the link of this entry would enter a directory that is open
IsLoop(e) ==
    /\ follow_symlinks
    /\ PathIsSymlink(e.path)
    /\ IsDir(e.path)
    /\ \E i \in 1..Len(stack) : Resolve(stack[i].path) = Resolve(e.path)

\* an iterator that does not open a directory below the root at which
\* gix::discover fails
Descends_NotBelowFailure(e) ==
    /\ IsDir(e.path)
    /\ ~IsLoop(e)
    /\ (PathIsSymlink(e.path) => (follow_symlinks \/ e.depth = 0))
    /\ DepthAllowed(e.depth + 1)
    /\ (e.depth = 0 \/ Discover(e.path) # <<>>)

\* handle_entry: the iterator opens the entry to yield its children later
Descends(e) ==
    /\ IsDir(e.path)
    /\ ~IsLoop(e)
    /\ (PathIsSymlink(e.path) => (follow_symlinks \/ e.depth = 0))
    /\ DepthAllowed(e.depth + 1)

\* drop the directories that have no entry left
RECURSIVE PopExhausted(_)
PopExhausted(s) ==
    IF s = <<>> THEN s
    ELSE IF s[Len(s)].todo = {} THEN PopExhausted(Front(s))
    ELSE s

\* the iterator's state after it yielded e
StackAfter(e) ==
    LET rest == IF wstart THEN stack
                ELSE [stack EXCEPT ![Len(stack)].todo = @ \ {Last(e.path)}]
        opened == IF Descends(e)
                  THEN Append(rest, [path |-> e.path, todo |-> Children(Resolve(e.path))])
                  ELSE rest
    IN PopExhausted(opened)

Advance(e) ==
    /\ wstart' = FALSE
    /\ stack' = StackAfter(e)

\* ------------------------------------------------------------------ Init
RootLists == UNION {[1..n -> RootCandidates] : n \in 1..MaxRoots}
DepthOptions == {<<>>} \cup {<<n>> : n \in 0..MaxDepthOpt}

Init ==
    /\ kind \in KindSets
    /\ link \in LinkTargets
    /\ root_paths \in RootLists
    /\ max_depth \in DepthOptions
    /\ follow_symlinks \in BOOLEAN
    /\ include_submodules \in BOOLEAN
    /\ pc = "scan"
    /\ rootIdx = 1
    /\ all_projects = <<>>
    /\ projects = <<>>
    /\ visited_repos = {}
    /\ wstart = FALSE
    /\ stack = <<>>
    /\ classified = {}
    /\ rootState = [i \in 1..Len(root_paths) |-> "Pending"]
    /\ result = "none"
    /\ AnalyzerIdle

\* ------------------------------------------------------------- scan_root
\* a root is usable: it exists and is a directory (lines 171-177)
RootIsValid(P) == Exists(P) /\ IsDir(P)

\* a strict scan: the first root that fails makes scan return Err
ScanRootFails_FailFast ==
    /\ pc = "scan"
    /\ rootIdx <= Len(root_paths)
    /\ ~RootIsValid(Root)
    /\ rootState' = [rootState EXCEPT ![rootIdx] = "Failed"]
    /\ pc' = "done"
    /\ result' = "Err"
    /\ UNCHANGED <<fsVars, cfgVars, analyzerVars,
                   rootIdx, all_projects, projects, visited_repos,
                   wstart, stack, classified>>

\* scan_root returns Err (lines 171-177); scan logs it and goes on
ScanRootFails ==
    /\ pc = "scan"
    /\ rootIdx <= Len(root_paths)
    /\ ~RootIsValid(Root)
    /\ rootState' = [rootState EXCEPT ![rootIdx] = "Failed"]
    /\ rootIdx' = rootIdx + 1
    /\ UNCHANGED <<fsVars, cfgVars, analyzerVars,
                   pc, all_projects, projects, visited_repos,
                   wstart, stack, classified, result>>

\* scan_root that keeps one visited_repos set for all the roots of a scan
ScanRootBegins_SharedVisited ==
    /\ pc = "scan"
    /\ rootIdx <= Len(root_paths)
    /\ RootIsValid(Root)
    /\ projects' = <<>>
    /\ wstart' = TRUE
    /\ stack' = <<>>
    /\ pc' = "walk"
    /\ rootState' = [rootState EXCEPT ![rootIdx] = "Traversing"]
    /\ UNCHANGED <<fsVars, cfgVars, analyzerVars,
                   rootIdx, all_projects, visited_repos, classified,
                   result>>

\* scan_root passes validation and builds the walker (lines 179-193)
ScanRootBegins ==
    /\ pc = "scan"
    /\ rootIdx <= Len(root_paths)
    /\ RootIsValid(Root)
    /\ projects' = <<>>
    /\ visited_repos' = {}
    /\ wstart' = TRUE
    /\ stack' = <<>>
    /\ pc' = "walk"
    /\ rootState' = [rootState EXCEPT ![rootIdx] = "Traversing"]
    /\ UNCHANGED <<fsVars, cfgVars, analyzerVars,
                   rootIdx, all_projects, classified, result>>

\* a walker that does not move past the entry on which it yields Err
EntryError_Hangs ==
    /\ pc = "walk"
    /\ \E e \in Entries : IsLoop(e)
    /\ UNCHANGED vars

\* an iteration in which the Err of the walker ends scan_root with Err
EntryError_Aborts ==
    /\ pc = "walk"
    /\ \E e \in Entries : IsLoop(e)
    /\ rootState' = [rootState EXCEPT ![rootIdx] = "Failed"]
    /\ rootIdx' = rootIdx + 1
    /\ pc' = "scan"
    /\ UNCHANGED <<fsVars, cfgVars, analyzerVars,
                   all_projects, projects, visited_repos, wstart, stack,
                   classified, result>>

\* one iteration of the for loop: the walker yields Err (line 199-204)
EntryError ==
    /\ pc = "walk"
    /\ \E e \in Entries :
        /\ IsLoop(e)
        /\ Advance(e)
    /\ UNCHANGED <<fsVars, cfgVars, analyzerVars,
                   pc, rootIdx, all_projects, projects,
                   visited_repos, classified, rootState, result>>

\* the test of line 210 without its symlink half
SkipsSymlink_Never(e) == FALSE

\* the test of line 210 without its follow_symlinks half
SkipsSymlink_Always(e) == PathIsSymlink(e.path)

\* the test of line 210
SkipsSymlink(e) == ~follow_symlinks /\ PathIsSymlink(e.path)

\* one iteration: the entry is a link and links are not followed (line 210)
SkipSymlink ==
    /\ pc = "walk"
    /\ \E e \in Entries :
        /\ ~IsLoop(e)
        /\ SkipsSymlink(e)
        /\ Advance(e)
    /\ UNCHANGED <<fsVars, cfgVars, analyzerVars,
                   pc, rootIdx, all_projects, projects,
                   visited_repos, classified, rootState, result>>

\* the entry reaches the check of line 216
Candidate(e) ==
    /\ ~IsLoop(e)
    /\ ~SkipsSymlink(e)

\* one iteration: the entry lies inside a known repository (line 216)
SkipInsideKnownRepo ==
    /\ pc = "walk"
    /\ \E e \in Entries :
        /\ Candidate(e)
        /\ IsInsideKnownRepo(e.path, visited_repos)
        /\ Advance(e)
    /\ UNCHANGED <<fsVars, cfgVars, analyzerVars,
                   pc, rootIdx, all_projects, projects,
                   visited_repos, classified, rootState, result>>

\* the entry reaches gix::discover (line 221)
Classify(e) ==
    /\ Candidate(e)
    /\ ~IsInsideKnownRepo(e.path, visited_repos)
    /\ classified' = classified \cup {[root |-> rootIdx, path |-> e.path]}

\* one iteration: discovery fails or finds a repository rooted elsewhere
NotARepositoryRoot ==
    /\ pc = "walk"
    /\ \E e \in Entries :
        /\ Classify(e)
        /\ LET found == Discover(e.path)
           IN IF found = <<>> THEN TRUE ELSE ~IsRoot(found[1], e.path)
        /\ Advance(e)
    /\ UNCHANGED <<fsVars, cfgVars, analyzerVars,
                   pc, rootIdx, all_projects, projects,
                   visited_repos, rootState, result>>

\* one iteration: a repository root that should_include rejects
SkipSubmodule ==
    /\ pc = "walk"
    /\ \E e \in Entries :
        /\ Classify(e)
        /\ LET found == Discover(e.path)
           IN /\ found # <<>>
              /\ IsRoot(found[1], e.path)
              /\ ~ShouldInclude(GitPathIsFile(found[1]))
        /\ Advance(e)
    /\ UNCHANGED <<fsVars, cfgVars, analyzerVars,
                   pc, rootIdx, all_projects, projects,
                   visited_repos, rootState, result>>

\* an iteration that pushes the Project without recording its path
FoundRepository_ForgetsVisited ==
    /\ pc = "walk"
    /\ \E e \in Entries :
        /\ Classify(e)
        /\ LET found == Discover(e.path)
           IN /\ found # <<>>
              /\ IsRoot(found[1], e.path)
              /\ ShouldInclude(GitPathIsFile(found[1]))
              /\ projects' = Append(projects, AnalyzeRepository(found[1]))
        /\ Advance(e)
    /\ UNCHANGED <<fsVars, cfgVars, analyzerVars, visited_repos,
                   pc, rootIdx, all_projects, rootState, result>>

\* an iteration that drops a repository whose config cannot be read
FoundRepository_ConfigRequired ==
    /\ pc = "walk"
    /\ \E e \in Entries :
        /\ Classify(e)
        /\ LET found == Discover(e.path)
           IN /\ found # <<>>
              /\ IsRoot(found[1], e.path)
              /\ ShouldInclude(GitPathIsFile(found[1]))
              /\ IF ConfigOk(e.path) = <<>>
                 THEN UNCHANGED <<visited_repos, projects>>
                 ELSE /\ visited_repos' = visited_repos \cup {e.path}
                      /\ projects' = Append(projects, AnalyzeRepository(found[1]))
        /\ Advance(e)
    /\ UNCHANGED <<fsVars, cfgVars, analyzerVars,
                   pc, rootIdx, all_projects, rootState, result>>

\* one iteration: a repository root is analyzed and recorded (lines 243-248)
FoundRepository ==
    /\ pc = "walk"
    /\ \E e \in Entries :
        /\ Classify(e)
        /\ LET found == Discover(e.path)
           IN /\ found # <<>>
              /\ IsRoot(found[1], e.path)
              /\ ShouldInclude(GitPathIsFile(found[1]))
              /\ visited_repos' = visited_repos \cup {e.path}
              /\ projects' = Append(projects, AnalyzeRepository(found[1]))
        /\ Advance(e)
    /\ UNCHANGED <<fsVars, cfgVars, analyzerVars,
                   pc, rootIdx, all_projects, rootState, result>>

\* the walker is exhausted: scan_root returns Ok(projects) and scan appends
ScanRootReturns ==
    /\ pc = "walk"
    /\ Entries = {}
    /\ all_projects' = all_projects \o projects
    /\ rootState' = [rootState EXCEPT ![rootIdx] = "Done"]
    /\ rootIdx' = rootIdx + 1
    /\ pc' = "scan"
    /\ UNCHANGED <<fsVars, cfgVars, analyzerVars,
                   projects, visited_repos, wstart, stack,
                   classified, result>>

\* ------------------------------------------------------------------ scan
\* the loop over the roots is over: scan returns Ok(all_projects)
ScanReturns ==
    /\ pc = "scan"
    /\ rootIdx > Len(root_paths)
    /\ pc' = "done"
    /\ result' = "Ok"
    /\ UNCHANGED <<fsVars, cfgVars, analyzerVars,
                   rootIdx, all_projects, projects, visited_repos,
                   wstart, stack, classified, rootState>>

Next ==
    \/ ScanRootFails
    \/ ScanRootBegins
    \/ EntryError
    \/ SkipSymlink
    \/ SkipInsideKnownRepo
    \/ NotARepositoryRoot
    \/ SkipSubmodule
    \/ FoundRepository
    \/ ScanRootReturns
    \/ ScanReturns

Spec == Init /\ [][Next]_vars

\* scan is sequential code that nothing suspends: it runs from its call to
\* its return, so a step that can be taken is taken.  The runs start from
\* one filesystem (r/q and r/p/m/n regular repositories, r/p/m a submodule)
\* with every link target, list of roots and pair of options.
FairInit ==
    /\ Init
    /\ kind = [r |-> "plain", p |-> "plain", m |-> "sub", n |-> "repo", q |-> "repo"]
    /\ max_depth = <<>>

FairSpec == FairInit /\ [][Next]_vars /\ WF_vars(Next)

\* ========================================================== git_analyzer
\* Strings are sequences of one-character strings.
UpperCase ==
    <<"A", "B", "C", "D", "E", "F", "G", "H", "I", "J", "K", "L", "M", "N",
      "O", "P", "Q", "R", "S", "T", "U", "V", "W", "X", "Y", "Z">>
LowerCase ==
    <<"a", "b", "c", "d", "e", "f", "g", "h", "i", "j", "k", "l", "m", "n",
      "o", "p", "q", "r", "s", "t", "u", "v", "w", "x", "y", "z">>

\* char::to_lowercase on ASCII
LowerOf(c) ==
    IF \E i \in 1..Len(UpperCase) : UpperCase[i] = c
    THEN LowerCase[CHOOSE i \in 1..Len(UpperCase) : UpperCase[i] = c]
    ELSE c

\* str::to_lowercase
ToLowercase(s) == [i \in 1..Len(s) |-> LowerOf(s[i])]

\* str::starts_with, str::ends_with, str::contains
StrStartsWith(s, pat) == Len(pat) <= Len(s) /\ SubSeq(s, 1, Len(pat)) = pat
StrEndsWith(s, pat) ==
    Len(pat) <= Len(s) /\ SubSeq(s, Len(s) - Len(pat) + 1, Len(s)) = pat
StrContains(s, pat) ==
    \E i \in 0..(Len(s) - Len(pat)) : SubSeq(s, i + 1, i + Len(pat)) = pat

\* str::trim_end_matches: the suffix is removed as often as it occurs
RECURSIVE TrimEndMatches(_, _)
TrimEndMatches(s, pat) ==
    IF StrEndsWith(s, pat)
    THEN TrimEndMatches(SubSeq(s, 1, Len(s) - Len(pat)), pat)
    ELSE s

\* str::split(c).collect(): the pieces between the occurrences of c
RECURSIVE Split(_, _)
Split(s, c) ==
    IF \A i \in 1..Len(s) : s[i] # c THEN <<s>>
    ELSE LET k == CHOOSE i \in 1..Len(s) :
                      s[i] = c /\ \A j \in 1..(i - 1) : s[j] # c
         IN <<SubSeq(s, 1, k - 1)>> \o Split(SubSeq(s, k + 1, Len(s)), c)

\* Iterator::nth (counting from 0) as an Option
Nth(pieces, n) == IF n + 1 <= Len(pieces) THEN <<pieces[n + 1]>> ELSE <<>>

\* the literals of git_analyzer.rs
DotGit == <<".", "g", "i", "t">>
HttpPrefix == <<"h", "t", "t", "p", ":", "/", "/">>
HttpsPrefix == <<"h", "t", "t", "p", "s", ":", "/", "/">>
SshPrefix == <<"s", "s", "h", ":", "/", "/">>

\* the table of extract_service (lines 229-235), in its order
Services ==
    <<[domain |-> <<"g", "i", "t", "h", "u", "b", ".", "c", "o", "m">>, name |-> "github"],
      [domain |-> <<"g", "i", "t", "l", "a", "b", ".", "c", "o", "m">>, name |-> "gitlab"],
      [domain |-> <<"b", "i", "t", "b", "u", "c", "k", "e", "t", ".", "o", "r", "g">>, name |-> "bitbucket"],
      [domain |-> <<"c", "o", "d", "e", "b", "e", "r", "g", ".", "o", "r", "g">>, name |-> "codeberg"],
      [domain |-> <<"s", "r", ".", "h", "t">>, name |-> "sourcehut"]>>

\* the name of the first entry of the table whose domain occurs in s
FirstService(s) ==
    IF \A i \in 1..Len(Services) : ~StrContains(s, Services[i].domain) THEN <<>>
    ELSE <<Services[CHOOSE i \in 1..Len(Services) :
               /\ StrContains(s, Services[i].domain)
               /\ \A j \in 1..(i - 1) : ~StrContains(s, Services[j].domain)].name>>

\* extract_service (lines 228-244)
ExtractService(u) == FirstService(u)

\* extract_account_from_https that takes the piece before the account
ExtractAccountFromHttps_OffByOne(u) ==
    LET parts == Split(u, "/")
    IN IF Len(parts) >= 3 THEN <<parts[3]>> ELSE <<>>

\* extract_account_from_https (lines 270-280)
ExtractAccountFromHttps(u) ==
    LET parts == Split(u, "/")
    IN IF Len(parts) >= 4 THEN <<parts[4]>> ELSE <<>>

\* the ssh:// branch of extract_account_from_ssh (lines 286-290)
SshUriAccount(u) ==
    LET after_protocol == SubSeq(u, Len(SshPrefix) + 1, Len(u))
        after_at == Nth(Split(after_protocol, "@"), 1)
    IN IF after_at = <<>> THEN <<>> ELSE Nth(Split(after_at[1], "/"), 1)

\* the git@host:account/repo branch that keeps all that follows the colon
ShorthandAccount_WholePath(u) ==
    LET after_at == Nth(Split(u, "@"), 1)
    IN IF after_at = <<>> THEN <<>> ELSE Nth(Split(after_at[1], ":"), 1)

\* the git@host:account/repo branch of extract_account_from_ssh (292-297)
ShorthandAccount(u) ==
    LET after_at == Nth(Split(u, "@"), 1)
        after_colon == IF after_at = <<>> THEN <<>>
                       ELSE Nth(Split(after_at[1], ":"), 1)
    IN IF after_colon = <<>> THEN <<>>
       ELSE <<Split(after_colon[1], "/")[1]>>

\* extract_account_from_ssh without its ssh:// branch
ExtractAccountFromSsh_ShorthandOnly(u) == ShorthandAccount(u)

\* extract_account_from_ssh (lines 285-299)
ExtractAccountFromSsh(u) ==
    IF StrStartsWith(u, SshPrefix) THEN SshUriAccount(u) ELSE ShorthandAccount(u)

\* extract_account (lines 252-267)
ExtractAccount(u) ==
    LET trimmed == TrimEndMatches(u, DotGit)
    IN IF StrStartsWith(trimmed, HttpPrefix) \/ StrStartsWith(trimmed, HttpsPrefix)
       THEN ExtractAccountFromHttps(trimmed)
       ELSE IF \E i \in 1..Len(trimmed) : trimmed[i] = "@"
       THEN ExtractAccountFromSsh(trimmed)
       ELSE <<>>

\* parse_git_url that hands the lowercased URL to extract_account too
ParseGitUrl_LowercasedAccount(u) ==
    [service |-> ExtractService(ToLowercase(u)),
     account |-> ExtractAccount(ToLowercase(u))]

\* parse_git_url (lines 208-219)
ParseGitUrl(u) ==
    [service |-> ExtractService(ToLowercase(u)),
     account |-> ExtractAccount(u)]

\* determine_config_scope that lets the first scope present win
DetermineConfigScope_FirstWins(s1, s2) ==
    IF s1 # <<>> THEN s1[1] ELSE IF s2 # <<>> THEN s2[1] ELSE "System"

\* determine_config_scope (lines 171-177)
DetermineConfigScope(s1, s2) ==
    IF s1 = <<"Local">> \/ s2 = <<"Local">> THEN "Local"
    ELSE IF s1 = <<"Global">> \/ s2 = <<"Global">> THEN "Global"
    ELSE "System"

\* ------------------------------------------------- inputs of git_analyzer
\* hosts: the five of the table (one in mixed case, one as a subdomain) and
\* one the table does not hold
HostGithub ==
    <<"g", "i", "t", "h", "u", "b", ".", "c", "o", "m">>
HostGithubMixed ==
    <<"G", "i", "t", "H", "u", "b", ".", "C", "O", "M">>
HostGitlab ==
    <<"g", "i", "t", "l", "a", "b", ".", "c", "o", "m">>
HostBitbucket ==
    <<"b", "i", "t", "b", "u", "c", "k", "e", "t", ".", "o", "r", "g">>
HostCodeberg ==
    <<"c", "o", "d", "e", "b", "e", "r", "g", ".", "o", "r", "g">>
HostSourcehut ==
    <<"g", "i", "t", ".", "s", "r", ".", "h", "t">>
HostExample ==
    <<"g", "i", "t", ".", "e", "x", "a", "m", "p", "l", "e", ".", "c", "o",
      "m">>
Hosts == {HostGithub, HostGithubMixed, HostGitlab, HostBitbucket, HostCodeberg,
          HostSourcehut, HostExample}

\* accounts: plain, with a hyphen, with "~", with an upper-case letter, and
\* one that is spelled like a domain of the table
AcctTorvalds ==
    <<"t", "o", "r", "v", "a", "l", "d", "s">>
AcctRustLang ==
    <<"r", "u", "s", "t", "-", "l", "a", "n", "g">>
AcctTilde ==
    <<"~", "u", "s", "e", "r">>
AcctUser ==
    <<"U", "s", "e", "r">>
AcctGitlabOrg ==
    <<"g", "i", "t", "l", "a", "b", "-", "o", "r", "g">>
AcctDomain ==
    <<"g", "i", "t", "h", "u", "b", ".", "c", "o", "m">>
Accounts == {AcctTorvalds, AcctRustLang, AcctTilde, AcctUser, AcctGitlabOrg,
             AcctDomain}

RepoName == <<"r", "e", "p", "o">>
Suffixes == {<<>>, DotGit}
SshPort == <<":", "2", "2">>

\* the forms of remote URL that extract_account documents
Forms == {"https", "http", "scp", "ssh", "ssh-port"}

\* the text of a URL of a form
UrlText(form, host, account, suffix) ==
    LET path == account \o <<"/">> \o RepoName \o suffix
        git_at == <<"g", "i", "t", "@">>
    IN IF form = "https" THEN HttpsPrefix \o host \o <<"/">> \o path
       ELSE IF form = "http" THEN HttpPrefix \o host \o <<"/">> \o path
       ELSE IF form = "scp" THEN git_at \o host \o <<":">> \o path
       ELSE IF form = "ssh" THEN SshPrefix \o git_at \o host \o <<"/">> \o path
       ELSE SshPrefix \o git_at \o host \o SshPort \o <<"/">> \o path

FormedUrls ==
    {[form |-> f, host |-> h, account |-> a, text |-> UrlText(f, h, a, x)] :
        f \in Forms, h \in Hosts, a \in Accounts, x \in Suffixes}

\* the URLs of the unit tests and of the documentation of parse_git_url
UrlLinux ==
    <<"h", "t", "t", "p", "s", ":", "/", "/", "g", "i", "t", "h", "u", "b",
      ".", "c", "o", "m", "/", "t", "o", "r", "v", "a", "l", "d", "s", "/",
      "l", "i", "n", "u", "x", ".", "g", "i", "t">>
UrlProject ==
    <<"g", "i", "t", "@", "g", "i", "t", "l", "a", "b", ".", "c", "o", "m",
      ":", "o", "r", "g", "/", "p", "r", "o", "j", "e", "c", "t", ".", "g",
      "i", "t">>
UrlUnknownHost ==
    <<"h", "t", "t", "p", "s", ":", "/", "/", "g", "i", "t", ".", "e", "x", "a", "m", "p", "l", "e", ".", "c", "o", "m", "/">> \o
    <<"u", "s", "e", "r", "/", "r", "e", "p", "o", ".", "g", "i", "t">>
UrlGitlab ==
    <<"s", "s", "h", ":", "/", "/", "g", "i", "t", "@", "g", "i", "t", "l",
      "a", "b", ".", "c", "o", "m", "/", "g", "i", "t", "l", "a", "b", "-",
      "o", "r", "g", "/", "g", "i", "t", "l", "a", "b", ".", "g", "i", "t">>
ExampleUrls ==
    {[form |-> "https", host |-> HostGithub, account |-> AcctTorvalds,
      text |-> UrlLinux],
     [form |-> "scp", host |-> HostGitlab, account |-> <<"o", "r", "g">>,
      text |-> UrlProject],
     [form |-> "ssh", host |-> HostGitlab, account |-> AcctGitlabOrg,
      text |-> UrlGitlab],
     [form |-> "https", host |-> HostExample, account |-> <<"u", "s", "e", "r">>,
      text |-> UrlUnknownHost]}

\* texts that have none of the forms
UrlNotAUrl ==
    <<"n", "o", "t", "-", "a", "-", "u", "r", "l">>
UrlFile ==
    <<"f", "i", "l", "e", ":", "/", "/", "/", "p", "a", "t", "h", "/", "t",
      "o", "/", "r", "e", "p", "o", ".", "g", "i", "t">>
UrlLocalPath ==
    <<"/", "s", "r", "v", "/", "g", "i", "t", "/", "r", "e", "p", "o", ".",
      "g", "i", "t">>
UrlGitProtocol ==
    <<"g", "i", "t", ":", "/", "/", "g", "i", "t", ".", "e", "x", "a", "m",
      "p", "l", "e", ".", "c", "o", "m", "/", "u", "s", "e", "r", "/", "r",
      "e", "p", "o", ".", "g", "i", "t">>
UrlSshNoUser ==
    <<"s", "s", "h", ":", "/", "/", "g", "i", "t", "l", "a", "b", ".", "c",
      "o", "m", "/", "o", "r", "g", "/", "r", "e", "p", "o", ".", "g", "i",
      "t">>
UrlFileAt ==
    <<"f", "i", "l", "e", ":", "/", "/", "/", "s", "r", "v", "/", "m", "e",
      "@", "w", "o", "r", "k", ":", "m", "i", "r", "r", "o", "r", "/", "r",
      "e", "p", "o", ".", "g", "i", "t">>
OtherUrls ==
    {[form |-> "other", host |-> <<>>, account |-> <<>>, text |-> t] :
        t \in {UrlNotAUrl, UrlFile, UrlLocalPath, UrlGitProtocol, UrlSshNoUser,
               UrlFileAt}}

UrlInputs == FormedUrls \cup ExampleUrls \cup OtherUrls

\* Option<ConfigScope>
ScopeOptions == {<<>>, <<"Local">>, <<"Global">>, <<"System">>}

\* --------------------------------------------- the runs of git_analyzer
scanVars == <<fsVars, cfgVars, pc, rootIdx, all_projects, projects, visited_repos,
              wstart, stack, classified, rootState, result>>

\* no scan is running: the analyzer is called on a URL and on two scopes
AnalyzerInit ==
    /\ kind = [r |-> "plain", p |-> "plain", m |-> "plain", n |-> "repo", q |-> "repo"]
    /\ link = <<>>
    /\ root_paths = <<>>
    /\ max_depth = <<>>
    /\ follow_symlinks = FALSE
    /\ include_submodules = TRUE
    /\ pc = "analyze"
    /\ rootIdx = 1
    /\ all_projects = <<>>
    /\ projects = <<>>
    /\ visited_repos = {}
    /\ wstart = FALSE
    /\ stack = <<>>
    /\ classified = {}
    /\ rootState = <<>>
    /\ result = "none"
    /\ url \in UrlInputs
    /\ parsed = <<>>
    /\ scope1 \in ScopeOptions
    /\ scope2 \in ScopeOptions
    /\ scope = <<>>
    /\ MetadataIdle

\* parse_git_url is called on the URL and returns
CallParseGitUrl ==
    /\ pc = "analyze"
    /\ parsed = <<>>
    /\ parsed' = <<ParseGitUrl(url.text)>>
    /\ UNCHANGED <<scanVars, url, scope1, scope2, scope, metadataVars>>

\* determine_config_scope is called on the two scopes and returns
CallDetermineConfigScope ==
    /\ pc = "analyze"
    /\ scope = <<>>
    /\ scope' = <<DetermineConfigScope(scope1, scope2)>>
    /\ UNCHANGED <<scanVars, url, parsed, scope1, scope2, metadataVars>>

AnalyzerNext ==
    \/ CallParseGitUrl
    \/ CallDetermineConfigScope

AnalyzerSpec == AnalyzerInit /\ [][AnalyzerNext]_vars

\* ============================================== metadata of a repository
\* the levels of git configuration, the most specific first
ConfigLevels == <<"Local", "Global", "System">>

\* config.string(key) on the merged snapshot: the value of the most specific
\* level that sets the key, None if no level does.  A value is written as
\* the level that supplies it.
ConfigString(levels) ==
    IF levels = {} THEN <<>>
    ELSE <<ConfigLevels[CHOOSE i \in 1..Len(ConfigLevels) :
               /\ ConfigLevels[i] \in levels
               /\ \A j \in 1..(i - 1) : ConfigLevels[j] \notin levels]>>

\* get_config_value_with_scope that reports the level the value comes from
GetConfigValueWithScope_SourceLevel(levels) ==
    [value |-> ConfigString(levels), scope |-> ConfigString(levels)]

\* get_config_value_with_scope (git_analyzer.rs, lines 144-166)
GetConfigValueWithScope(levels) ==
    IF ConfigString(levels) # <<>>
    THEN [value |-> ConfigString(levels), scope |-> <<"Local">>]
    ELSE [value |-> <<>>, scope |-> <<>>]

\* extract_git_config (lines 117-138); ok = FALSE is Err
ExtractGitConfig(r) ==
    IF ~r.opens THEN [ok |-> FALSE, value |-> <<>>]
    ELSE LET name == GetConfigValueWithScope(r.user_name)
             email == GetConfigValueWithScope(r.user_email)
         IN [ok |-> TRUE,
             value |-> <<[user_name |-> name.value,
                          user_email |-> email.value,
                          scope |-> DetermineConfigScope(name.scope, email.scope)]>>]

\* url.<base>.insteadOf: a URL that starts with insteadOf gets base in its place
RewriteUrl(rule, u) ==
    IF StrStartsWith(u, rule.insteadOf)
    THEN rule.base \o SubSeq(u, Len(rule.insteadOf) + 1, Len(u))
    ELSE u

\* Remote::url(Direction::Fetch) and its to_bstring: remote.<name>.url with
\* the rewrites of url.<base>.insteadOf applied, None if the remote has no url
FetchUrl(r, remote) ==
    IF remote.url = <<>> THEN <<>>
    ELSE IF r.rewrite = <<>> THEN remote.url
    ELSE <<RewriteUrl(r.rewrite[1], remote.url[1])>>

\* a RemoteUrl whose service and account are parsed from the lowercased URL
RemoteUrlOf_ParsesLowercased(name, url_string) ==
    [name |-> name,
     url |-> url_string,
     service |-> ParseGitUrl(ToLowercase(url_string)).service,
     account |-> ParseGitUrl(ToLowercase(url_string)).account]

\* the RemoteUrl pushed for a remote (scanner.rs 140-148, git_analyzer.rs 61-70)
RemoteUrlOf(name, url_string) ==
    [name |-> name,
     url |-> url_string,
     service |-> ParseGitUrl(url_string).service,
     account |-> ParseGitUrl(url_string).account]

\* a loop body that pushes an entry with an empty URL for a remote without one
RemoteEntry_EmptyUrl(r, remote) ==
    IF remote.found /\ FetchUrl(r, remote) # <<>>
    THEN <<RemoteUrlOf(remote.name, FetchUrl(r, remote)[1])>>
    ELSE <<RemoteUrlOf(remote.name, <<>>)>>

\* the body of the loop over remote_names: what it pushes for one remote
RemoteEntry(r, remote) ==
    IF remote.found /\ FetchUrl(r, remote) # <<>>
    THEN <<RemoteUrlOf(remote.name, FetchUrl(r, remote)[1])>>
    ELSE <<>>

\* the loop over the first n names of repo.remote_names()
RECURSIVE RemoteLoop(_, _)
RemoteLoop(r, n) ==
    IF n = 0 THEN <<>>
    ELSE RemoteLoop(r, n - 1) \o RemoteEntry(r, r.remote_names[n])

\* extract_remote_urls (git_analyzer.rs, lines 43-81); ok = FALSE is Err
ExtractRemoteUrls(r) ==
    IF ~r.opens THEN [ok |-> FALSE, value |-> <<>>]
    ELSE [ok |-> TRUE, value |-> RemoteLoop(r, Len(r.remote_names))]

\* the remotes and config of analyze_repository (scanner.rs, lines 133-153)
AnalyzeRepositoryMetadata(r) ==
    [remotes |-> RemoteLoop(r, Len(r.remote_names)),
     config |-> IF ExtractGitConfig(r).ok THEN ExtractGitConfig(r).value ELSE <<>>]

\* ------------------------------------------ inputs of the metadata calls
\* the remote names, in the order remote_names() lists them
RemoteNames == <<"origin", "upstream">>

\* https://GitHub.COM/User/repo.git
UrlMixedCase == UrlText("https", HostGithubMixed, AcctUser, DotGit)

\* what find_remote gives for a name: an error, a remote without url, or a
\* remote with one of two URLs
Lookups ==
    {[found |-> FALSE, url |-> <<>>],
     [found |-> TRUE, url |-> <<>>],
     [found |-> TRUE, url |-> <<UrlMixedCase>>],
     [found |-> TRUE, url |-> <<UrlProject>>]}

RemoteOf(name, l) == [name |-> name, found |-> l.found, url |-> l.url]

\* no remote, one of the two, or both
RemoteConfigs ==
    {<<>>}
    \cup {<<RemoteOf(RemoteNames[i], l)>> : i \in 1..Len(RemoteNames), l \in Lookups}
    \cup {<<RemoteOf(RemoteNames[1], l1), RemoteOf(RemoteNames[2], l2)>> :
             l1 \in Lookups, l2 \in Lookups}

\* [url "git@github.com:"] insteadOf = https://GitHub.COM/
RewriteRule ==
    [insteadOf |-> HttpsPrefix \o HostGithubMixed \o <<"/">>,
     base |-> <<"g", "i", "t", "@">> \o HostGithub \o <<":">>]

\* the levels at which an identity key is set
KeyLevels == {{}, {"Local"}, {"Global"}, {"System"}, {"Local", "Global"}}

RepoInputs ==
    [opens : BOOLEAN, rewrite : {<<>>, <<RewriteRule>>},
     remote_names : RemoteConfigs, user_name : KeyLevels, user_email : KeyLevels]

\* ------------------------------------------------ the runs of the calls
\* no scan is running and no URL is parsed: the metadata of one repository
\* is read
MetadataInit ==
    /\ kind = [r |-> "plain", p |-> "plain", m |-> "plain", n |-> "repo", q |-> "repo"]
    /\ link = <<>>
    /\ root_paths = <<>>
    /\ max_depth = <<>>
    /\ follow_symlinks = FALSE
    /\ include_submodules = TRUE
    /\ pc = "metadata"
    /\ rootIdx = 1
    /\ all_projects = <<>>
    /\ projects = <<>>
    /\ visited_repos = {}
    /\ wstart = FALSE
    /\ stack = <<>>
    /\ classified = {}
    /\ rootState = <<>>
    /\ result = "none"
    /\ url = NoUrl
    /\ parsed = <<>>
    /\ scope1 = <<>>
    /\ scope2 = <<>>
    /\ scope = <<>>
    /\ git_repo \in RepoInputs
    /\ remotes_result = <<>>
    /\ config_result = <<>>
    /\ project = <<>>

\* extract_remote_urls is called on the repository and returns
CallExtractRemoteUrls ==
    /\ pc = "metadata"
    /\ remotes_result = <<>>
    /\ remotes_result' = <<ExtractRemoteUrls(git_repo)>>
    /\ UNCHANGED <<scanVars, url, parsed, scope1, scope2, scope, git_repo,
                   config_result, project>>

\* extract_git_config is called on the repository and returns
CallExtractGitConfig ==
    /\ pc = "metadata"
    /\ config_result = <<>>
    /\ config_result' = <<ExtractGitConfig(git_repo)>>
    /\ UNCHANGED <<scanVars, url, parsed, scope1, scope2, scope, git_repo,
                   remotes_result, project>>

\* analyze_repository reads the remotes and the config of the repository
CallAnalyzeRepository ==
    /\ pc = "metadata"
    /\ project = <<>>
    /\ project' = <<AnalyzeRepositoryMetadata(git_repo)>>
    /\ UNCHANGED <<scanVars, url, parsed, scope1, scope2, scope, git_repo,
                   remotes_result, config_result>>

MetadataNext ==
    \/ CallExtractRemoteUrls
    \/ CallExtractGitConfig
    \/ CallAnalyzeRepository

MetadataSpec == MetadataInit /\ [][MetadataNext]_vars

\* ================================================================ claims
\* the paths of a sequence of Projects
ProjPaths(ps) == {ps[i].path : i \in 1..Len(ps)}

\* the paths handed to gix::discover in the traversal of the current root
ClassifiedHere == {c.path : c \in {x \in classified : x.root = rootIdx}}

\* the traversal of the current root has yielded its last entry
TraversalOver == pc = "walk" /\ Entries = {}

\* depth of a path below the current root
DepthBelowRoot(P) == Len(P) - Len(Root)

C2_AsStated ==
    pc = "done" =>
        \A i, j \in 1..Len(all_projects) :
            all_projects[i].path = all_projects[j].path => i = j

\* C2 (amended): no two Projects found in the traversal of one root have the
\* same path.
C2_UniqueWithinRoot ==
    \A i, j \in 1..Len(projects) : projects[i].path = projects[j].path => i = j

\* C2 witness: one traversal found the repository r/q and the followed link
\* r/p/l to it, two Projects with two paths.
C2_Witness ==
    /\ TraversalOver /\ follow_symlinks /\ link = DirQ
    /\ {DirQ, LinkL} \subseteq ProjPaths(projects)

\* ---- C3
\* C3: with include_submodules false no Project, of the current root or of
\* the result, has is_submodule = true.
C3_NoSubmoduleReported ==
    ~include_submodules =>
        /\ \A i \in 1..Len(projects) : ~projects[i].is_submodule
        /\ \A i \in 1..Len(all_projects) : ~all_projects[i].is_submodule

\* C3 witness: a scan with include_submodules false returned Projects after
\* it classified a submodule root.
C3_Witness ==
    /\ pc = "done" /\ ~include_submodules /\ all_projects # <<>>
    /\ \E c \in classified :
        /\ Discover(c.path) # <<>>
        /\ IsRoot(Discover(c.path)[1], c.path)
        /\ GitPathIsFile(Discover(c.path)[1])

C5_NoSymlinkClassified ==
    ~follow_symlinks =>
        /\ \A c \in classified : ~PathIsSymlink(c.path)
        /\ \A P \in ProjPaths(projects) \cup ProjPaths(all_projects) :
               ~PathIsSymlink(P)

\* C5 witness: a scan of r that does not follow links is over, the link
\* r/p/l to the repository r/q was met and r/q is reported by its real path.
C5_Witness ==
    /\ pc = "done" /\ ~follow_symlinks /\ link = DirQ /\ kind.p = "plain"
    /\ root_paths = <<DirR>> /\ max_depth = <<>>
    /\ DirQ \in ProjPaths(all_projects) /\ LinkL \notin ProjPaths(all_projects)

\* ---- C6
\* the link r/p/l lies at or below the current root within the depth bound
\* and points at a repository root
LinkInReach ==
    /\ link # <<>>
    /\ link \in RealDirs
    /\ KindOf(kind, link) # "plain"
    /\ StartsWith(LinkL, Root)
    /\ DepthAllowed(DepthBelowRoot(LinkL))

\* C6 as stated: with follow_symlinks true, a link within the depth bound
\* that points at a repository is a Project of its own when the traversal
\* is over.
C6_AsStated ==
    (TraversalOver /\ follow_symlinks /\ LinkInReach) =>
        LinkL \in ProjPaths(projects)

\* C6 (amended): with follow_symlinks true, a link within the depth bound
\* that is not strictly inside a repository confirmed in the traversal and
\* that points at a regular repository, or at a submodule/worktree when
\* include_submodules is true, is handed to gix::discover and is a Project
\* of its own, next to the Project of the original when that is reported.
C6_FollowedLinkReported ==
    (/\ TraversalOver /\ follow_symlinks /\ LinkInReach
     /\ ~IsInsideKnownRepo(LinkL, visited_repos)
     /\ ShouldInclude(KindOf(kind, link) = "sub")) =>
        /\ LinkL \in ClassifiedHere
        /\ LinkL \in ProjPaths(projects)
        /\ (Root = DirR => {link, LinkL} \subseteq ProjPaths(projects))

\* C6 witness: the traversal of r that follows links is over and reports
\* both the repository r/q and the link r/p/l to it.
C6_Witness ==
    /\ TraversalOver /\ follow_symlinks /\ Root = DirR /\ link = DirQ
    /\ kind.p = "plain" /\ kind.q = "repo"
    /\ LinkL \in ProjPaths(projects) /\ DirQ \in ProjPaths(projects)

\* ---- C7
\* the repository roots that scan_root accepted, over all roots
Discoveries ==
    {c.path : c \in {x \in classified :
        /\ Discover(x.path) # <<>>
        /\ IsRoot(Discover(x.path)[1], x.path)
        /\ ShouldInclude(GitPathIsFile(Discover(x.path)[1]))}}

C8_AsDocumented ==
    (pc = "done" /\ \E i \in 1..Len(root_paths) : ~RootIsValid(root_paths[i]))
        => result = "Err"

\* ---- C9
\* C9 as documented: with include_submodules true, a submodule within the
\* depth bound that lies inside a regular repository found in the same
\* traversal is a Project with is_submodule = true.
C9_AsDocumented ==
    (TraversalOver /\ include_submodules) =>
        \A d \in RealDirs :
            (/\ KindOf(kind, d) = "sub"
             /\ StartsWith(d, Root)
             /\ DepthAllowed(DepthBelowRoot(d))
             /\ \E i \in 1..Len(projects) :
                    /\ ~projects[i].is_submodule
                    /\ StrictDescendant(d, projects[i].path))
            => \E i \in 1..Len(projects) :
                    projects[i].path = d /\ projects[i].is_submodule

\* ---- C10
\* the submodule/worktree roots handed to gix::discover in this traversal
SubmoduleRootsHere ==
    {P \in ClassifiedHere :
        /\ Discover(P) # <<>>
        /\ IsRoot(Discover(P)[1], P)
        /\ GitPathIsFile(Discover(P)[1])}

\* the repository roots handed to gix::discover in this traversal
RepositoryRootsHere ==
    {P \in ClassifiedHere : Discover(P) # <<>> /\ IsRoot(Discover(P)[1], P)}

C11_InclusionRule ==
    pc = "walk" =>
        /\ \A P \in RepositoryRootsHere :
            /\ Discover(P)[1].git = "repo" => P \in ProjPaths(projects)
            /\ Discover(P)[1].git = "sub" =>
                   (P \in ProjPaths(projects) <=> include_submodules)
        /\ \A i \in 1..Len(projects) :
            /\ projects[i].path \in RepositoryRootsHere
            /\ projects[i].is_submodule = (Discover(projects[i].path)[1].git = "sub")
        /\ (/\ Entries = {} /\ include_submodules /\ Root = DirR /\ DepthAllowed(1)
            /\ kind.p = "repo" /\ kind.q = "sub") =>
               {DirP, DirQ} \subseteq ProjPaths(projects)

\* C11 witness: the traversal of r with include_submodules true is over; the
\* main repository r/p and the worktree r/q beside it are both Projects, the
\* second with is_submodule = true.
C11_Witness ==
    /\ TraversalOver /\ include_submodules /\ Root = DirR
    /\ kind.p = "repo" /\ kind.q = "sub"
    /\ \E i, j \in 1..Len(projects) :
        /\ projects[i].path = DirP /\ ~projects[i].is_submodule
        /\ projects[j].path = DirQ /\ projects[j].is_submodule

\* ---- C12
\* scan_root as a function of the root alone: the body of the for loop
\* (lines 195-267) applied to one entry and then, in read_dir order, to the
\* entries beneath it; open holds the directories the walker has open and
\* acc the visited_repos and projects so far
RECURSIVE VisitEntry(_, _, _, _)
RECURSIVE VisitChildren(_, _, _, _, _)
VisitEntry(path, depth, open, acc) ==
    LET e == [path |-> path, depth |-> depth]
        loop == /\ follow_symlinks /\ PathIsSymlink(path) /\ IsDir(path)
                /\ Resolve(path) \in open
        found == Discover(path)
        accepted == IF loop \/ SkipsSymlink(e) \/ IsInsideKnownRepo(path, acc.visited)
                    THEN FALSE
                    ELSE IF found = <<>> THEN FALSE
                    ELSE /\ IsRoot(found[1], path)
                         /\ ShouldInclude(GitPathIsFile(found[1]))
        acc1 == IF accepted
                THEN [visited |-> acc.visited \cup {path},
                      projects |-> Append(acc.projects, AnalyzeRepository(found[1]))]
                ELSE acc
        descends == /\ IsDir(path)
                    /\ ~loop
                    /\ (PathIsSymlink(path) => (follow_symlinks \/ depth = 0))
                    /\ DepthAllowed(depth + 1)
    IN IF descends
       THEN VisitChildren(path, depth + 1, open \cup {Resolve(path)},
                          Children(Resolve(path)), acc1)
       ELSE acc1

VisitChildren(dir, depth, open, todo, acc) ==
    IF todo = {} THEN acc
    ELSE LET n == FirstName(todo)
         IN VisitChildren(dir, depth, open, todo \ {n},
                          VisitEntry(Append(dir, n), depth, open, acc))

\* what scan returns for the one-root list <<P>>: the Projects of scan_root,
\* nothing when scan_root fails
ScanRootAlone(P) ==
    IF RootIsValid(P)
    THEN VisitEntry(P, 0, {}, [visited |-> {}, projects |-> <<>>]).projects
    ELSE <<>>

\* the results of the first n roots of the list, each scanned alone, in order
RECURSIVE ScanEachAlone(_)
ScanEachAlone(n) ==
    IF n = 0 THEN <<>>
    ELSE ScanEachAlone(n - 1) \o ScanRootAlone(root_paths[n])

\* C12: the result of scan over the list of roots is the concatenation, in
\* list order, of the results of scanning each root alone with the same
\* options: all_projects is that concatenation for the roots finished so
\* far, and the Projects of a finished traversal are those of its root
\* scanned alone, whatever the roots before it confirmed.
C12_ConcatenationOfRoots ==
    /\ pc = "done" => all_projects = ScanEachAlone(Len(root_paths))
    /\ pc = "scan" => all_projects = ScanEachAlone(rootIdx - 1)
    /\ TraversalOver => projects = ScanRootAlone(Root)

\* C12 witness: scan of <<r, r/p/l>> returned; the first root confirmed the
\* repository r/p, which holds the second root, and the second root still
\* contributed the Project it yields alone.
C12_Witness ==
    /\ pc = "done" /\ root_paths = <<DirR, LinkL>> /\ follow_symlinks
    /\ kind.p = "repo" /\ link = DirQ
    /\ DirP \in ProjPaths(ScanRootAlone(DirR))
    /\ ScanRootAlone(LinkL) # <<>>
    /\ all_projects = ScanRootAlone(DirR) \o ScanRootAlone(LinkL)

\* ---- C13
\* a root's final states
Terminal == {"Done", "Failed"}

\* C13: every root of the list goes Pending -> Traversing -> Done, or to
\* Failed when scan_root rejects it, which it does in the step that takes
\* the root up; at most one root is Traversing, and a root is Pending while
\* a root before it is not yet Done or Failed; a root is Failed only if it
\* does not exist or is no directory and Done only if it is a directory; a
\* root never leaves Done or Failed, and every root ends in one of them.
C13_RootStateMachine ==
    /\ [](\A i, j \in 1..Len(root_paths) :
            /\ (rootState[i] = "Traversing" /\ rootState[j] = "Traversing") => i = j
            /\ (i < j /\ rootState[i] \notin Terminal) => rootState[j] = "Pending"
            /\ rootState[i] \in {"Pending", "Traversing"} \cup Terminal
            /\ rootState[i] = "Failed" => ~RootIsValid(root_paths[i])
            /\ rootState[i] \in {"Traversing", "Done"} => RootIsValid(root_paths[i]))
    /\ [][\A i \in 1..Len(root_paths) :
             rootState'[i] # rootState[i] =>
                 \/ rootState[i] = "Pending" /\ rootState'[i] \in {"Traversing", "Failed"}
                 \/ rootState[i] = "Traversing" /\ rootState'[i] = "Done"]_vars
    /\ <>(\A i \in 1..Len(root_paths) : rootState[i] \in Terminal)

\* C13 witness: the first of two roots is Done with Projects found, the
\* second is Traversing.
C13_Witness ==
    /\ pc = "walk" /\ Len(root_paths) = 2
    /\ rootState[1] = "Done" /\ rootState[2] = "Traversing"
    /\ all_projects # <<>>

\* ---- C14
\* the service names of the table
ServiceNames == {Services[i].name : i \in 1..Len(Services)}

\* C14: parse_git_url returns a pair for every input, each half None or
\* Some (a service of the table, an account that is a piece of the URL), and
\* it returns the documented pairs for the documented URLs; a text with no
\* recognizable form gives (None, None).
C14_ParseGitUrlExamples ==
    parsed # <<>> =>
        /\ parsed[1].service \in {<<>>} \cup {<<n>> : n \in ServiceNames}
        /\ Len(parsed[1].account) <= 1
        /\ parsed[1].account # <<>> => StrContains(url.text, parsed[1].account[1])
        /\ url.text = UrlLinux =>
               parsed[1] = [service |-> <<"github">>, account |-> <<AcctTorvalds>>]
        /\ url.text = UrlProject =>
               parsed[1] = [service |-> <<"gitlab">>, account |-> <<<<"o", "r", "g">>>>]
        /\ url.text = UrlGitlab =>
               parsed[1] = [service |-> <<"gitlab">>, account |-> <<AcctGitlabOrg>>]
        /\ url.text = UrlUnknownHost =>
               parsed[1] = [service |-> <<>>, account |-> <<<<"u", "s", "e", "r">>>>]
        /\ url.text = UrlNotAUrl => parsed[1] = [service |-> <<>>, account |-> <<>>]
        /\ url.text = UrlFile => parsed[1] = [service |-> <<>>, account |-> <<>>]

\* C14 witness: parse_git_url returned (github, torvalds) for
\* https://github.com/torvalds/linux.git.
C14_Witness ==
    /\ url.text = UrlLinux
    /\ parsed = <<[service |-> <<"github">>, account |-> <<AcctTorvalds>>]>>

\* ---- C15
\* C15 as stated: the service is read off the host of the URL: it is the
\* service of the table domain that the lowercased host holds, and None when
\* the host holds none, whatever the rest of the URL is.
C15_AsStated ==
    (parsed # <<>> /\ url.form \in Forms) =>
        parsed[1].service = FirstService(ToLowercase(url.host))

\* ---- C16
\* C16: for http://host/account/repo and https://host/account/repo, with or
\* without a trailing ".git", the account is the first path segment after
\* the host, in its own case and with its "~".
C16_HttpsAccount ==
    (parsed # <<>> /\ url.form \in {"http", "https"}) =>
        parsed[1].account = <<url.account>>

\* C16 witness: parse_git_url returned the account ~user for a sourcehut
\* https URL.
C16_Witness ==
    /\ parsed # <<>> /\ url.form = "https"
    /\ url.host = HostSourcehut /\ url.account = AcctTilde
    /\ parsed[1].account = <<AcctTilde>>

\* ---- C17
\* C17: for git@host:account/repo, with or without a trailing ".git", the
\* account is the first path segment after the colon, in its own case.
C17_ShorthandAccount ==
    (parsed # <<>> /\ url.form = "scp") =>
        parsed[1].account = <<url.account>>

\* C17 witness: parse_git_url returned the account User for
\* git@github.com:User/repo.git.
C17_Witness ==
    /\ parsed # <<>> /\ url.form = "scp" /\ StrEndsWith(url.text, DotGit)
    /\ url.host = HostGithub /\ url.account = AcctUser
    /\ parsed[1].account = <<AcctUser>>

\* ---- C18
\* C18: for ssh://git@host/account/repo and ssh://git@host:22/account/repo
\* the account is the first path segment after the host; the port is not
\* taken for it, and the URL without the port gives the same account.
C18_SshUriAccount ==
    (parsed # <<>> /\ url.form \in {"ssh", "ssh-port"}) =>
        /\ parsed[1].account = <<url.account>>
        /\ parsed[1].account =
               ParseGitUrl(UrlText("ssh", url.host, url.account, <<>>)).account

\* C18 witness: parse_git_url returned the account rust-lang for
\* ssh://git@github.com:22/rust-lang/repo.git.
C18_Witness ==
    /\ parsed # <<>> /\ url.form = "ssh-port" /\ StrEndsWith(url.text, DotGit)
    /\ url.host = HostGithub /\ url.account = AcctRustLang
    /\ parsed[1].account = <<AcctRustLang>>

\* ---- C19
\* C19 as stated: a URL that has none of the three forms, every file:// URL
\* among them, gives account None.
C19_AsStated ==
    (parsed # <<>> /\ url.form = "other") => parsed[1].account = <<>>

\* ---- C20
\* how specific a scope is
Specificity(s) == IF s = "Local" THEN 3 ELSE IF s = "Global" THEN 2 ELSE 1

\* C20: determine_config_scope returns the most specific of the scopes
\* present in its two arguments (Local before Global before System), System
\* when both are absent, and the same for the arguments in either order.
C20_ScopePrecedence ==
    scope # <<>> =>
        /\ scope[1] \in {"Local", "Global", "System"}
        /\ \A s \in {scope1, scope2} \ {<<>>} :
               Specificity(scope[1]) >= Specificity(s[1])
        /\ scope[1] # "System" => <<scope[1]>> \in {scope1, scope2}
        /\ (scope1 = <<>> /\ scope2 = <<>>) => scope[1] = "System"
        /\ scope[1] = DetermineConfigScope(scope2, scope1)

\* C20 witness: determine_config_scope(Some(Global), Some(Local)) returned
\* Local.
C20_Witness ==
    scope1 = <<"Global">> /\ scope2 = <<"Local">> /\ scope = <<"Local">>

C22_AsStated ==
    (config_result # <<>> /\ git_repo.opens) =>
        LET set_at == git_repo.user_name \cup git_repo.user_email
            c == config_result[1].value[1]
        IN /\ ("Global" \in set_at /\ "Local" \notin set_at) => c.scope = "Global"
           /\ set_at = {} => c.scope = "System"

\* ---- C24
\* the remotes of the repository whose fetch URL resolves, in the order of
\* the enumeration of the names
ResolvableRemotes ==
    SelectSeq(git_repo.remote_names, LAMBDA x : x.found /\ x.url # <<>>)

\* rs holds one RemoteUrl per resolvable remote, in the order of the names
OnePerResolvableRemote(rs) ==
    /\ Len(rs) = Len(ResolvableRemotes)
    /\ \A i \in 1..Len(rs) :
          /\ rs[i].name = ResolvableRemotes[i].name
          /\ rs[i].url # <<>>

Elements(rs) == {rs[i] : i \in 1..Len(rs)}

\* the RemoteUrls of the Project and of the list of extract_remote_urls
ReturnedRemoteUrls ==
    (IF project = <<>> THEN {} ELSE Elements(project[1].remotes))
    \cup (IF remotes_result = <<>> THEN {} ELSE Elements(remotes_result[1].value))

\* the url that remote.<name>.url sets for the remote of that name
ConfiguredUrl(name) ==
    git_repo.remote_names[CHOOSE i \in 1..Len(git_repo.remote_names) :
                              git_repo.remote_names[i].name = name].url

IncludedRootsHere ==
    {P \in ClassifiedHere :
        /\ Discover(P) # <<>>
        /\ IsRoot(Discover(P)[1], P)
        /\ ShouldInclude(GitPathIsFile(Discover(P)[1]))}

\* C23: a confirmed, included repository is added to the Projects and to
\* the confirmed set whether or not its config can be read, with config None
\* exactly when it cannot; the failed lookup does not end the scan, which
\* returns Ok.
C23_UnreadableConfigKept ==
    /\ pc = "walk" =>
          /\ IncludedRootsHere \subseteq ProjPaths(projects)
          /\ IncludedRootsHere \subseteq visited_repos
    /\ \A i \in 1..Len(projects) :
          (projects[i].config = <<>>) <=>
              (Resolve(projects[i].path) \in UnreadableConfigs)
    /\ pc = "done" =>
          /\ result = "Ok"
          /\ \A i \in 1..Len(all_projects) :
                (all_projects[i].config = <<>>) <=>
                    (Resolve(all_projects[i].path) \in UnreadableConfigs)

\* C23 witness: the scan of r is over; r/q, whose config cannot be read, is
\* reported with config None and the repository r/p/m/n, met after it, is
\* reported with its config.
C23_Witness ==
    /\ pc = "done" /\ result = "Ok" /\ root_paths = <<DirR>>
    /\ \E i, j \in 1..Len(all_projects) :
          /\ i < j
          /\ all_projects[i].path = DirQ /\ all_projects[i].config = <<>>
          /\ all_projects[j].path = DirN /\ all_projects[j].config # <<>>

\* ---- C25
\* the path is the working-tree root of the repository discovered from it
IsWorkTreeRoot(P) == Discover(P) # <<>> /\ Discover(P)[1].work_dir = P

AncestorsFromRoot(D) ==
    {SubSeq(D, 1, n) : n \in Len(Root)..(Len(D) - 1)}

\* D lies at or below the current root, within the depth bound, beneath
\* directories (no links, the root apart) none of which is a repository root
BelowNonRepositories(D) ==
    /\ StartsWith(D, Root)
    /\ DepthAllowed(DepthBelowRoot(D))
    /\ \A A \in AncestorsFromRoot(D) :
          /\ ~IsWorkTreeRoot(A)
          /\ A # Root => ~PathIsSymlink(A)

\* C26: a candidate at which discovery fails or which is no repository root
\* does not prune the walk: when the traversal is over, every directory
\* within the depth bound beneath a chain of such directories was handed to
\* gix::discover, and is a Project if it is a repository root that
\* should_include accepts.
C26_NonRepositoryNotPruned ==
    TraversalOver =>
        \A D \in RealDirs \cup {Append(LinkL, "q")} :
            (IsDir(D) /\ BelowNonRepositories(D)) =>
                /\ D \in ClassifiedHere
                /\ (/\ IsWorkTreeRoot(D)
                    /\ ShouldInclude(GitPathIsFile(Discover(D)[1])))
                       => D \in ProjPaths(projects)

\* C26 witness: the traversal of r is over; discovery failed at r, r/p and
\* r/p/m, all three were classified, and the repository r/p/m/n beneath
\* them is a Project.
C26_Witness ==
    /\ TraversalOver /\ Root = DirR /\ kind.p = "plain" /\ kind.m = "plain"
    /\ Discover(DirM) = <<>>
    /\ {DirR, DirP, DirM, DirN} \subseteq ClassifiedHere
    /\ DirN \in ProjPaths(projects)

\* ---- C27
\* the walker is about to yield Err: the next entry is a link that closes
\* a loop
WalkerYieldsErr == pc = "walk" /\ \E e \in Entries : IsLoop(e)

====
